---- MODULE Spec2Model ----
(***************************************************************************)
(* A model of filemagicext: the libmagic binding (class Magic, the module  *)
(* level from_file / from_buffer and their instance cache), the TypeInfo   *)
(* classification predicates, and the directory tally script test.py.      *)
(*                                                                         *)
(* Four specifications share the module:                                   *)
(*   Spec         one Magic instance built directly and used by threads    *)
(*   SpecModule   the module being loaded, then module-level calls         *)
(*   SpecTypeInfo TypeInfo objects and their predicates                    *)
(*   SpecTally    the loop of test.py over a directory listing             *)
(***************************************************************************)
EXTENDS Integers, Sequences, FiniteSets

\* ------------------------------------------------------------------ bounds
NumThreads == 2
MaxInst == 2
MaxEntries == 3

Threads == 1..NumThreads
Inst == 1..MaxInst

\* Python's None where the other values are strings, and where they are
\* object references or C pointers (a NULL handle reads as None in Python)
None == "None"
NoObject == 0

\* ------------------------------------------------ flag constants (285-306)
MAGIC_NONE == 0
MAGIC_COMPRESS == 4
MAGIC_MIME == 16
MAGIC_CONTINUE == 32
MAGIC_MIME_ENCODING == 1024

\* Python's & and | on non-negative integers, bit by bit
RECURSIVE BitAnd(_, _)
BitAnd(a, b) ==
    IF a = 0 \/ b = 0 THEN 0
    ELSE (IF a % 2 = 1 /\ b % 2 = 1 THEN 1 ELSE 0) + 2 * BitAnd(a \div 2, b \div 2)

RECURSIVE BitOr(_, _)
BitOr(a, b) ==
    IF a = 0 THEN b
    ELSE IF b = 0 THEN a
    ELSE (IF a % 2 = 1 \/ b % 2 = 1 THEN 1 ELSE 0) + 2 * BitOr(a \div 2, b \div 2)

\* Python truthiness of an int
Truthy(n) == n # 0

VARIABLES
    py3,          \* the interpreter is Python 3 (str is not bytes)
    modpc,        \* how far the module body of filemagicext.py has run
    names,        \* the module namespace: which def each public name is bound to
    magic_close,  \* the module global magic_close (None once cleared at shutdown)
    _instances,   \* the module global _instances: mime key -> Magic instance
    stage,        \* per Magic object: unborn, constructed, finalized
    flags,        \* self.flags
    cookie,       \* self.cookie
    lock,         \* self.lock: the threads holding it (none: free)
    held,         \* the Magic objects the main program holds a reference to
    ctor,         \* history: the arguments each object was constructed with
    handle,       \* libmagic's side of each handle: unopened, open, closed
    openCalls,    \* history: magic_open calls made by each object's __init__
    closeCalls,   \* history: magic_close calls made on each handle
    staleCalls,   \* history: identification calls issued on a closed handle
    created,      \* history: the objects _get_magic_type built and cached, per key
    pc,           \* each thread's position
    frame,        \* each thread's locals, kept after the call with its outcome
    info,         \* the TypeInfo object under inspection
    asked,        \* the last predicate called on it and its answer
    listing,      \* os.listdir(dir) with what each entry is
    order,        \* the iteration order of method_key_map
    idx,          \* position of the for loop of test.py
    count_dict,   \* count_dict of test.py
    tpc,          \* position of test.py
    last          \* history: the keys the last loop iteration incremented

magicVars == <<py3, modpc, names, magic_close, _instances, stage, flags, cookie,
               lock, held, ctor, handle, openCalls, closeCalls, staleCalls,
               created, pc, frame>>
infoVars == <<info, asked>>
tallyVars == <<listing, order, idx, count_dict, tpc, last>>
vars == <<magicVars, infoVars, tallyVars>>

\* ----------------------------------------------------------- value shapes
Files == {"a.pdf", "missing"}
Exists(filename) == filename # "missing"

\* the type Python calls str: bytes on Python 2, unicode text on Python 3
StrType == IF py3 THEN "unicode" ELSE "bytes"

Return(type, val) == [kind |-> "return", type |-> type, val |-> val]
Raise(exc, message) == [kind |-> "raise", type |-> exc, val |-> message]
NoResult == [kind |-> "none", type |-> None, val |-> None]

NoOutcome == [null |-> FALSE, err |-> "no call"]
NoFrame == [fn |-> None, via |-> None, kw |-> None, arg |-> None, mime |-> FALSE,
            self |-> NoObject, acquired |-> FALSE, native |-> NoObject,
            outcome |-> NoOutcome, out |-> NoResult]

\* what libmagic answers on success, by the flags the handle was opened with
\* (290: MAGIC_MIME "Return a mime string", 291: "Return the MIME encoding")
NativeText(fl, arg) ==
    IF Truthy(BitAnd(fl, MAGIC_MIME)) THEN <<"mimetype", arg>>
    ELSE IF Truthy(BitAnd(fl, MAGIC_MIME_ENCODING)) THEN <<"encoding", arg>>
    ELSE <<"description", arg>>

\* the outcomes of one native identification call: a char* or NULL, and for
\* NULL what magic_error then says (a message or NULL)
NativeOutcomes == {[null |-> FALSE, err |-> None],
                   [null |-> TRUE, err |-> None],
                   [null |-> TRUE, err |-> "cannot open"]}

\* maybe_decode (202-206): bytes stay bytes on Python 2, are decoded on 3
maybe_decode(s) ==
    IF ~py3 THEN s ELSE Return("unicode", s.val)

\* errorcheck_null (184-189) applied to the result of _magic_file/_magic_buffer
errorcheck_null(o, fl, arg) ==
    IF o.null THEN Raise("MagicException", o.err)
    ELSE Return("bytes", NativeText(fl, arg))

\* Magic._handle509Bug (91-98); the literal is a str
Handle509BugNoMessageCheck(e, fl) ==
    IF Truthy(BitAnd(fl, MAGIC_MIME))
    THEN Return(StrType, <<"mimetype", "application/octet-stream">>)
    ELSE e

handle509Bug(e, fl) ==
    IF e.val = None /\ Truthy(BitAnd(fl, MAGIC_MIME))
    THEN Return(StrType, <<"mimetype", "application/octet-stream">>)
    ELSE e

\* the try/except of from_buffer and from_file (76-79, 86-89)
Identify(o, fl, arg) ==
    LET r == errorcheck_null(o, fl, arg)
    IN IF r.kind = "raise" THEN handle509Bug(r, fl) ELSE maybe_decode(r)

\* Magic.__init__ lines 55-64
InitFlags(mime, mime_encoding, keep_going, uncompress) ==
    LET f1 == IF mime THEN BitOr(MAGIC_NONE, MAGIC_MIME)
              ELSE IF mime_encoding THEN BitOr(MAGIC_NONE, MAGIC_MIME_ENCODING)
              ELSE MAGIC_NONE
        f2 == IF keep_going THEN BitOr(f1, MAGIC_CONTINUE) ELSE f1
    IN IF uncompress THEN BitOr(f2, MAGIC_COMPRESS) ELSE f2

CtorArgs == [mime : BOOLEAN, mime_encoding : BOOLEAN,
             keep_going : BOOLEAN, uncompress : BOOLEAN]
NoArgs == [mime |-> FALSE, mime_encoding |-> FALSE,
           keep_going |-> FALSE, uncompress |-> FALSE]

Finalizing == magic_close = None
Running(t) == pc[t] \notin {"idle", "done"}
AllIdle == \A t \in Threads : ~Running(t)
Referenced(i) ==
    \/ i \in held
    \/ \E k \in BOOLEAN : _instances[k] = i
    \/ \E t \in Threads : Running(t) /\ frame[t].self = i

\* ------------------------------------------------------------ class Magic
\* Magic.__init__ (55-69) run on the unborn object i. magic_open gives a
\* handle (named after the object) or NULL; the lock is created either way.
MagicInit(i, args, openOk) ==
    /\ flags' = [flags EXCEPT ![i] = InitFlags(args.mime, args.mime_encoding,
                                               args.keep_going, args.uncompress)]
    /\ openCalls' = [openCalls EXCEPT ![i] = @ + 1]
    /\ cookie' = [cookie EXCEPT ![i] = IF openOk THEN i ELSE NoObject]
    /\ handle' = [handle EXCEPT ![i] = IF openOk THEN "open" ELSE @]
    /\ lock' = [lock EXCEPT ![i] = {}]
    /\ ctor' = [ctor EXCEPT ![i] = args]
    /\ stage' = [stage EXCEPT ![i] = "constructed"]

\* what magic_load (269-270, errcheck errorcheck_negative_one 192-197) does
\* in __init__: it fails on a NULL cookie, and may fail on an open one
LoadChoices(openOk) == IF openOk THEN BOOLEAN ELSE {FALSE}

\* m = Magic(...) in the main program: on a failed magic_load the exception
\* leaves __init__ and nothing refers to the new object
Construct(args, openOk, loadOk) ==
    /\ modpc = "loaded" /\ ~Finalizing
    /\ stage[1] = "unborn"
    /\ loadOk \in LoadChoices(openOk)
    /\ MagicInit(1, args, openOk)
    /\ held' = IF loadOk THEN {1} ELSE {}
    /\ UNCHANGED <<infoVars, tallyVars, py3, modpc, names, magic_close, _instances, closeCalls,
                   staleCalls, created, pc, frame>>

\* the main program drops its reference (del m, or m goes out of scope)
Release ==
    /\ held # {}
    /\ held' = {}
    /\ UNCHANGED <<infoVars, tallyVars, py3, modpc, names, magic_close, _instances, stage, flags,
                   cookie, lock, ctor, handle, openCalls, closeCalls,
                   staleCalls, created, pc, frame>>

\* a thread calls m.from_buffer(buf) on the object the program holds
CallFromBuffer(t) ==
    /\ pc[t] \in {"idle", "done"} /\ ~Finalizing
    /\ 1 \in held
    /\ frame' = [frame EXCEPT ![t] = [NoFrame EXCEPT !.fn = "from_buffer",
                     !.via = "direct", !.arg = "buf", !.self = 1]]
    /\ pc' = [pc EXCEPT ![t] = "with_lock"]
    /\ UNCHANGED <<infoVars, tallyVars, py3, modpc, names, magic_close, _instances, stage, flags,
                   cookie, lock, held, ctor, handle, openCalls, closeCalls,
                   staleCalls, created>>

\* a thread calls m.from_file(filename) on the object the program holds
CallFromFile(t, filename) ==
    /\ pc[t] \in {"idle", "done"} /\ ~Finalizing
    /\ 1 \in held
    /\ frame' = [frame EXCEPT ![t] = [NoFrame EXCEPT !.fn = "from_file",
                     !.via = "direct", !.arg = filename, !.self = 1]]
    /\ pc' = [pc EXCEPT ![t] = "open"]
    /\ UNCHANGED <<infoVars, tallyVars, py3, modpc, names, magic_close, _instances, stage, flags,
                   cookie, lock, held, ctor, handle, openCalls, closeCalls,
                   staleCalls, created>>

\* what the caller of the module-level function gets from the value or the
\* exception of the instance method: def 126/139 pass it on, def 310/316
\* wrap a value in TypeInfo(base_info=...)
Wrap(via, r) ==
    IF r.kind = "return" /\ via \in {"L310", "L316"}
    THEN Return("TypeInfo", r) ELSE r

\* the call of thread t ends with r: its frame is popped
Finish(t, r) ==
    /\ frame' = [frame EXCEPT ![t].out = Wrap(frame[t].via, r)]
    /\ pc' = [pc EXCEPT ![t] = "done"]

\* Magic.from_file 83-84: open(filename) raises when the file is not there
FromFileOpenUnchecked(t) ==
    /\ pc[t] = "open"
    /\ pc' = [pc EXCEPT ![t] = "with_lock"]
    /\ UNCHANGED frame
    /\ UNCHANGED <<infoVars, tallyVars, py3, modpc, names, magic_close, _instances, stage, flags,
                   cookie, lock, held, ctor, handle, openCalls, closeCalls,
                   staleCalls, created>>

FromFileOpen(t) ==
    /\ pc[t] = "open"
    /\ IF Exists(frame[t].arg)
       THEN /\ pc' = [pc EXCEPT ![t] = "with_lock"]
            /\ UNCHANGED frame
       ELSE Finish(t, Raise("IOError", frame[t].arg))
    /\ UNCHANGED <<infoVars, tallyVars, py3, modpc, names, magic_close, _instances, stage, flags,
                   cookie, lock, held, ctor, handle, openCalls, closeCalls,
                   staleCalls, created>>

\* "with self.lock:" (75, 85) and the call into magic_buffer / magic_file
\* with self.cookie (77, 87): the thread is now inside libmagic
WithLockNoWait(t) ==
    /\ pc[t] = "with_lock"
    /\ lock' = [lock EXCEPT ![frame[t].self] = @ \cup {t}]
    /\ frame' = [frame EXCEPT ![t].acquired = TRUE,
                              ![t].native = cookie[frame[t].self]]
    /\ staleCalls' = (staleCalls \/ (cookie[frame[t].self] # NoObject
                                     /\ handle[cookie[frame[t].self]] = "closed"))
    /\ pc' = [pc EXCEPT ![t] = "native"]
    /\ UNCHANGED <<infoVars, tallyVars, py3, modpc, names, magic_close, _instances, stage, flags,
                   cookie, held, ctor, handle, openCalls, closeCalls,
                   created>>

WithLock(t) ==
    /\ pc[t] = "with_lock"
    /\ lock[frame[t].self] = {}
    /\ lock' = [lock EXCEPT ![frame[t].self] = {t}]
    /\ frame' = [frame EXCEPT ![t].acquired = TRUE,
                              ![t].native = cookie[frame[t].self]]
    /\ staleCalls' = (staleCalls \/ (cookie[frame[t].self] # NoObject
                                     /\ handle[cookie[frame[t].self]] = "closed"))
    /\ pc' = [pc EXCEPT ![t] = "native"]
    /\ UNCHANGED <<infoVars, tallyVars, py3, modpc, names, magic_close, _instances, stage, flags,
                   cookie, held, ctor, handle, openCalls, closeCalls,
                   created>>

\* the native call returns (outcome o): errcheck, maybe_decode or
\* _handle509Bug, then the with block releases the lock (76-79, 86-89)
NativeReturn(t, o) ==
    /\ pc[t] = "native"
    /\ lock' = [lock EXCEPT ![frame[t].self] = @ \ {t}]
    /\ frame' = [frame EXCEPT
           ![t].outcome = o,
           ![t].out = Wrap(frame[t].via,
                           Identify(o, flags[frame[t].self], frame[t].arg))]
    /\ pc' = [pc EXCEPT ![t] = "done"]
    /\ UNCHANGED <<infoVars, tallyVars, py3, modpc, names, magic_close, _instances, stage, flags,
                   cookie, held, ctor, handle, openCalls, closeCalls,
                   staleCalls, created>>

\* Magic.__del__ (100-113), run once nothing refers to the object
DelNoReset(i) ==
    /\ stage[i] = "constructed" /\ ~Referenced(i)
    /\ stage' = [stage EXCEPT ![i] = "finalized"]
    /\ IF cookie[i] # NoObject /\ magic_close # None
       THEN /\ closeCalls' = [closeCalls EXCEPT ![cookie[i]] = @ + 1]
            /\ handle' = [handle EXCEPT ![cookie[i]] = "closed"]
            /\ UNCHANGED cookie
       ELSE UNCHANGED <<closeCalls, handle, cookie>>
    /\ UNCHANGED <<infoVars, tallyVars, py3, modpc, names, magic_close, _instances, flags, lock,
                   held, ctor, openCalls, staleCalls, created, pc, frame>>

Del(i) ==
    /\ stage[i] = "constructed" /\ ~Referenced(i)
    /\ stage' = [stage EXCEPT ![i] = "finalized"]
    /\ IF cookie[i] # NoObject /\ magic_close # None
       THEN /\ closeCalls' = [closeCalls EXCEPT ![cookie[i]] = @ + 1]
            /\ handle' = [handle EXCEPT ![cookie[i]] = "closed"]
            /\ cookie' = [cookie EXCEPT ![i] = NoObject]
       ELSE UNCHANGED <<closeCalls, handle, cookie>>
    /\ UNCHANGED <<infoVars, tallyVars, py3, modpc, names, magic_close, _instances, flags, lock,
                   held, ctor, openCalls, staleCalls, created, pc, frame>>

\* interpreter shutdown, once the threads are through: the module globals
\* are cleared (comment 104-105: "magic_close may have been cleared already")
Shutdown ==
    /\ modpc = "loaded" /\ ~Finalizing
    /\ AllIdle
    /\ magic_close' = None
    /\ _instances' = [k \in BOOLEAN |-> NoObject]
    /\ held' = {}
    /\ UNCHANGED <<infoVars, tallyVars, py3, modpc, names, stage, flags, cookie, lock, ctor, handle,
                   openCalls, closeCalls, staleCalls, created, pc, frame>>

\* ------------------------------------------------- the module body, in order
\* def from_file(filename, mime=False) (126-136)
DefFromFile126 ==
    /\ modpc = "start"
    /\ names' = [names EXCEPT !.from_file = "L126"]
    /\ modpc' = "126"
    /\ UNCHANGED <<infoVars, tallyVars, py3, magic_close, _instances, stage, flags, cookie, lock,
                   held, ctor, handle, openCalls, closeCalls, staleCalls,
                   created, pc, frame>>

\* def from_buffer(buffer, mime=False) (139-149)
DefFromBuffer139 ==
    /\ modpc = "126"
    /\ names' = [names EXCEPT !.from_buffer = "L139"]
    /\ modpc' = "139"
    /\ UNCHANGED <<infoVars, tallyVars, py3, magic_close, _instances, stage, flags, cookie, lock,
                   held, ctor, handle, openCalls, closeCalls, staleCalls,
                   created, pc, frame>>

\* 152-179: libmagic is looked for; ImportError when it is not found
FindLibrary(found) ==
    /\ modpc = "139"
    /\ modpc' = IF found THEN "libmagic" ELSE "ImportError"
    /\ UNCHANGED <<infoVars, tallyVars, py3, names, magic_close, _instances, stage, flags, cookie,
                   lock, held, ctor, handle, openCalls, closeCalls, staleCalls,
                   created, pc, frame>>

\* 227-283: the native entry points are bound, magic_close among them (231)
BindNatives ==
    /\ modpc = "libmagic"
    /\ magic_close' = "libmagic.magic_close"
    /\ modpc' = "natives"
    /\ UNCHANGED <<infoVars, tallyVars, py3, names, _instances, stage, flags, cookie, lock, held,
                   ctor, handle, openCalls, closeCalls, staleCalls, created, pc, frame>>

\* def from_file(filename) (310-313) rebinds the name from_file
DefFromFile310 ==
    /\ modpc = "natives"
    /\ names' = [names EXCEPT !.from_file = "L310"]
    /\ modpc' = "310"
    /\ UNCHANGED <<infoVars, tallyVars, py3, magic_close, _instances, stage, flags, cookie, lock,
                   held, ctor, handle, openCalls, closeCalls, staleCalls,
                   created, pc, frame>>

\* def from_buffer(buffer) (316-319) rebinds from_buffer; class TypeInfo
\* (322) follows and the module is loaded
DefFromBuffer316 ==
    /\ modpc = "310"
    /\ names' = [names EXCEPT !.from_buffer = "L316"]
    /\ modpc' = "loaded"
    /\ UNCHANGED <<infoVars, tallyVars, py3, magic_close, _instances, stage, flags, cookie, lock,
                   held, ctor, handle, openCalls, closeCalls, staleCalls,
                   created, pc, frame>>

\* ----------------------------------------------------- module-level calls
\* the keyword arguments a caller may pass next to the positional one
Keywords == {"none", "mime=True"}

\* a call of the name fn with (arg, kw): Python binds the arguments to the
\* parameters of the def the name is bound to. Defs 126/139 take mime;
\* defs 310/316 take one parameter, so a mime keyword is a TypeError, and
\* they pass False to _get_magic_type (311, 317)
ModuleCall(t, fn, arg, kw) ==
    LET def == names[fn]
        fr == [NoFrame EXCEPT !.fn = fn, !.via = def, !.kw = kw, !.arg = arg]
    IN /\ modpc = "loaded" /\ ~Finalizing
       /\ pc[t] \in {"idle", "done"}
       /\ IF def \in {"L126", "L139"}
          THEN /\ frame' = [frame EXCEPT ![t] = [fr EXCEPT !.mime = (kw = "mime=True")]]
               /\ pc' = [pc EXCEPT ![t] = "get"]
          ELSE IF kw # "none"
          THEN /\ frame' = [frame EXCEPT ![t] = [fr EXCEPT !.out =
                      Raise("TypeError", "unexpected keyword argument 'mime'")]]
               /\ pc' = [pc EXCEPT ![t] = "done"]
          ELSE /\ frame' = [frame EXCEPT ![t] = [fr EXCEPT !.mime = FALSE]]
               /\ pc' = [pc EXCEPT ![t] = "get"]
       /\ UNCHANGED <<infoVars, tallyVars, py3, modpc, names, magic_close, _instances, stage, flags,
                      cookie, lock, held, ctor, handle, openCalls, closeCalls,
                      staleCalls, created>>

ModuleFromFile(t, filename, kw) == ModuleCall(t, "from_file", filename, kw)

ModuleFromBuffer(t, kw) == ModuleCall(t, "from_buffer", "buf", kw)

\* where the instance method starts once m is known (136, 149, 312, 318)
MethodEntry(fn) == IF fn = "from_file" THEN "open" ELSE "with_lock"

\* _get_magic_type 120-121: i = _instances.get(mime); if i is None
GetMagicTypeGet(t) ==
    LET i == _instances[frame[t].mime]
    IN /\ pc[t] = "get"
       /\ IF i = NoObject
          THEN /\ pc' = [pc EXCEPT ![t] = "create"]
               /\ UNCHANGED frame
          ELSE /\ frame' = [frame EXCEPT ![t].self = i]
               /\ pc' = [pc EXCEPT ![t] = MethodEntry(frame[t].fn)]
       /\ UNCHANGED <<infoVars, tallyVars, py3, modpc, names, magic_close, _instances, stage, flags,
                      cookie, lock, held, ctor, handle, openCalls, closeCalls,
                      staleCalls, created>>

\* _get_magic_type 122: i = _instances[mime] = Magic(mime=mime). When
\* magic_load fails the MagicException leaves the module-level call and
\* _instances is not assigned.
GetMagicTypeCreate(t, openOk, loadOk) ==
    LET k == frame[t].mime
        unborn == {j \in Inst : stage[j] = "unborn"}
    IN /\ pc[t] = "create"
       /\ unborn # {}
       /\ loadOk \in LoadChoices(openOk)
       /\ LET i == CHOOSE j \in unborn : \A j2 \in unborn : j <= j2
          IN /\ MagicInit(i, [NoArgs EXCEPT !.mime = k], openOk)
             /\ IF loadOk
                THEN /\ _instances' = [_instances EXCEPT ![k] = i]
                     /\ created' = [created EXCEPT ![k] = @ \cup {i}]
                     /\ frame' = [frame EXCEPT ![t].self = i]
                     /\ pc' = [pc EXCEPT ![t] = MethodEntry(frame[t].fn)]
                ELSE /\ frame' = [frame EXCEPT ![t].out =
                            Raise("MagicException", "could not find any magic files")]
                     /\ pc' = [pc EXCEPT ![t] = "done"]
                     /\ UNCHANGED <<_instances, created>>
       /\ UNCHANGED <<infoVars, tallyVars, py3, modpc, names, magic_close, held, closeCalls,
                      staleCalls>>

\* ---------------------------------------------------------- specifications
IdleMagic ==
    /\ _instances = [k \in BOOLEAN |-> NoObject]
    /\ stage = [i \in Inst |-> "unborn"]
    /\ flags = [i \in Inst |-> MAGIC_NONE]
    /\ cookie = [i \in Inst |-> NoObject]
    /\ lock = [i \in Inst |-> {}]
    /\ held = {}
    /\ ctor = [i \in Inst |-> NoArgs]
    /\ handle = [i \in Inst |-> "unopened"]
    /\ openCalls = [i \in Inst |-> 0]
    /\ closeCalls = [i \in Inst |-> 0]
    /\ staleCalls = FALSE
    /\ created = [k \in BOOLEAN |-> {}]
    /\ pc = [t \in Threads |-> "idle"]
    /\ frame = [t \in Threads |-> NoFrame]

\* the module as it is once its body has run to the end
LoadedModule ==
    /\ modpc = "loaded"
    /\ names = [from_file |-> "L310", from_buffer |-> "L316"]
    /\ magic_close = "libmagic.magic_close"

IdleInfo == info = None /\ asked = None

IdleTally ==
    /\ listing = <<>> /\ order = <<>> /\ idx = 0
    /\ count_dict = <<>> /\ tpc = "off" /\ last = <<>>

\* one Magic object, built by the program and shared by its threads
Init ==
    /\ py3 \in BOOLEAN
    /\ LoadedModule
    /\ IdleMagic /\ IdleInfo /\ IdleTally

Next ==
    \/ \E args \in CtorArgs, openOk \in BOOLEAN, loadOk \in BOOLEAN :
           Construct(args, openOk, loadOk)
    \/ Release
    \/ \E t \in Threads : CallFromBuffer(t)
    \/ \E t \in Threads, filename \in Files : CallFromFile(t, filename)
    \/ \E t \in Threads : FromFileOpen(t)
    \/ \E t \in Threads : WithLock(t)
    \/ \E t \in Threads, o \in NativeOutcomes : NativeReturn(t, o)
    \/ \E i \in Inst : Del(i)
    \/ Shutdown

Spec == Init /\ [][Next]_vars

\* the module is imported, then threads use the module-level functions
InitModule ==
    /\ py3 \in BOOLEAN
    /\ modpc = "start"
    /\ names = [from_file |-> "unbound", from_buffer |-> "unbound"]
    /\ magic_close = "unbound"
    /\ IdleMagic /\ IdleInfo /\ IdleTally

NextModule ==
    \/ DefFromFile126
    \/ DefFromBuffer139
    \/ \E found \in BOOLEAN : FindLibrary(found)
    \/ BindNatives
    \/ DefFromFile310
    \/ DefFromBuffer316
    \/ \E t \in Threads, filename \in Files, kw \in Keywords :
           ModuleFromFile(t, filename, kw)
    \/ \E t \in Threads, kw \in Keywords : ModuleFromBuffer(t, kw)
    \/ \E t \in Threads : GetMagicTypeGet(t)
    \/ \E t \in Threads, openOk \in BOOLEAN, loadOk \in BOOLEAN :
           GetMagicTypeCreate(t, openOk, loadOk)
    \/ \E t \in Threads : FromFileOpen(t)
    \/ \E t \in Threads : WithLock(t)
    \/ \E t \in Threads, o \in NativeOutcomes : NativeReturn(t, o)
    \/ \E i \in Inst : Del(i)
    \/ Shutdown

SpecModule == InitModule /\ [][NextModule]_vars

\* ---------------------------------------------------------- class TypeInfo
\* Python's "needle in s", s.startswith(prefix)
Contains(needle, s) ==
    \E i \in 0..(Len(s) - Len(needle)) : SubSeq(s, i + 1, i + Len(needle)) = needle

StartsWith(s, prefix) ==
    Len(s) >= Len(prefix) /\ SubSeq(s, 1, Len(prefix)) = prefix

\* TypeInfo.__init__ (324-327)
TypeInfo(base_info, mime) == [_base_info |-> base_info, _mime |-> mime]

\* the version of is_word left commented out at 332-333
is_word_by_mime(self) ==
    \/ self._mime = "application/msword"
    \/ self._mime = "application/vnd.openxmlformats-officedocument.wordprocessingml.document"

is_word(self) ==
    \/ Contains("Microsoft Office Word", self._base_info)
    \/ self._base_info = "Microsoft Word document (*.docx)"
    \/ Contains("Microsoft Macintosh Word", self._base_info)
    \/ self._base_info = "Microsoft Word 2007+"

is_excel(self) ==
    \/ Contains("Microsoft Excel", self._base_info)
    \/ self._base_info = "Microsoft Excel document (*.xlsx)"
    \/ Contains("Microsoft Macintosh Excel", self._base_info)
    \/ self._base_info = "Microsoft Excel 2007+"

is_ppt(self) ==
    \/ Contains("Microsoft Office PowerPoint", self._base_info)
    \/ self._base_info = "Microsoft PowerPoint document (*.pptx)"
    \/ Contains("Microsoft Macintosh PowerPoint", self._base_info)
    \/ self._base_info = "Microsoft PowerPoint 2007+"

is_pdf(self) == StartsWith(self._base_info, "PDF document")

is_rtf(self) == StartsWith(self._base_info, "Rich Text Format")

is_html(self) == StartsWith(self._base_info, "HTML document text")

is_script(self) == Contains("script", self._base_info)

is_other_text(self) == Contains("text", self._base_info)

is_linux_executable(self) ==
    Contains("ELF", self._base_info) \/ Contains("COFF", self._base_info)

is_pe(self) ==
    \/ Contains(" PE ", self._base_info)
    \/ Contains(" PE32", self._base_info)
    \/ StartsWith(self._base_info, "PE ")
    \/ StartsWith(self._base_info, "MS-DOS executable")
    \/ StartsWith(self._base_info, "Self-extracting PKZIP archive")
    \/ StartsWith(self._base_info, "Microsoft Windows Autorun file")
    \/ StartsWith(self._base_info, "x86 boot sector")

is_7_zip(self) == StartsWith(self._base_info, "7-zip archive data")

is_rar(self) == StartsWith(self._base_info, "RAR archive data")

is_tar(self) == self._base_info = "tar archive"

is_other_zip(self) ==
    \/ StartsWith(self._base_info, "application/zip")
    \/ StartsWith(self._base_info, "Zip archive data")
    \/ StartsWith(self._base_info, "gzip compressed data")
    \/ StartsWith(self._base_info, "Microsoft Cabinet archive")
    \/ StartsWith(self._base_info, "bzip2 compressed data")
    \/ StartsWith(self._base_info, "POSIX tar archive")
    \/ self._base_info = "InstallShield CAB"
    \/ StartsWith(self._base_info, "xar archive")
    \/ self._base_info = "xz compressed data"
    \/ StartsWith(self._base_info, "Zip64 archive data")

\* getattr(file_info, method_name)() (test.py 28-29)
CallMethod(method_name, self) ==
    CASE method_name = "is_word" -> is_word(self)
      [] method_name = "is_excel" -> is_excel(self)
      [] method_name = "is_ppt" -> is_ppt(self)
      [] method_name = "is_pdf" -> is_pdf(self)
      [] method_name = "is_rtf" -> is_rtf(self)
      [] method_name = "is_html" -> is_html(self)
      [] method_name = "is_script" -> is_script(self)
      [] method_name = "is_other_text" -> is_other_text(self)
      [] method_name = "is_linux_executable" -> is_linux_executable(self)
      [] method_name = "is_pe" -> is_pe(self)
      [] method_name = "is_7_zip" -> is_7_zip(self)
      [] method_name = "is_rar" -> is_rar(self)
      [] method_name = "is_tar" -> is_tar(self)
      [] method_name = "is_other_zip" -> is_other_zip(self)

\* the examples of the docstrings of is_word, is_excel and is_ppt (346-349,
\* 358-361, 370-373), each with the predicate whose docstring lists it
\* line 346
Doc_macOS_docx ==
    [platform |-> "macOS", ext |-> "docx", method |-> "is_word",
     text |-> "Microsoft Word 2007+"]

\* line 347
Doc_macOS_doc ==
    [platform |-> "macOS", ext |-> "doc", method |-> "is_word",
     text |-> "Composite Document File V2 Document, Little Endian, Os: MacOS, Version 10.3, Code page: 10008, Author: Microsoft Office , Template: Normal.dotm, Last Saved By: Microsoft Office , Revision Number: 3, Name of Creating Application: Microsoft Macintosh Word, Create Time/Date: Mon May 14 08:18:00 2018, Last Saved Time/Date: Mon May 14 08:18:00 2018, Number of Pages: 1, Number of Words: 0, Number of Characters: 0, Security: 0"]

\* line 348
Doc_win_docx ==
    [platform |-> "win", ext |-> "docx", method |-> "is_word",
     text |-> "Microsoft Word 2007+"]

\* line 349
Doc_win_doc ==
    [platform |-> "win", ext |-> "doc", method |-> "is_word",
     text |-> "Composite Document File V2 Document, Little Endian, Os: Windows, Version 5.1, Code page: 936, Title: C++, Template: Normal, Revision Number: 1, Name of Creating Application: Microsoft Office Word, Total Editing Time: 02:00, Create Time/Date: Thu Feb  2 12:48:00 2012, Last Saved Time/Date: Thu Feb  2 12:50:00 2012, Number of Pages: 1, Number of Words: 1210, Number of Characters: 6897, Security: 0"]

\* line 358
Doc_macOS_xlsx ==
    [platform |-> "macOS", ext |-> "xlsx", method |-> "is_excel",
     text |-> "Microsoft Excel 2007+"]

\* line 359
Doc_macOS_xls ==
    [platform |-> "macOS", ext |-> "xls", method |-> "is_excel",
     text |-> "Composite Document File V2 Document, Little Endian, Os: MacOS, Version 10.3, Code page: 10008, Author: Microsoft Office , Last Saved By: Microsoft Office , Name of Creating Application: Microsoft Macintosh Excel, Create Time/Date: Mon May 14 08:20:11 2018, Last Saved Time/Date: Mon May 14 08:20:22 2018, Security: 0"]

\* line 360
Doc_win_xlsx ==
    [platform |-> "win", ext |-> "xlsx", method |-> "is_excel",
     text |-> "Microsoft Excel 2007+"]

\* line 361
Doc_win_xls ==
    [platform |-> "win", ext |-> "xls", method |-> "is_excel",
     text |-> "Composite Document File V2 Document, Little Endian, Os: Windows, Version 5.0, Code page: 936, Name of Creating Application: Microsoft Excel, Create Time/Date: Tue Dec 17 01:32:42 1996, Last Saved Time/Date: Thu Jan 31 07:43:10 2008, Security: 0"]

\* line 370
Doc_macOS_pptx ==
    [platform |-> "macOS", ext |-> "pptx", method |-> "is_ppt",
     text |-> "Microsoft PowerPoint 2007+"]

\* line 371
Doc_macOS_ppt ==
    [platform |-> "macOS", ext |-> "ppt", method |-> "is_ppt",
     text |-> "Composite Document File V2 Document, Little Endian, Os: MacOS, Version 10.3, Code page: 10008, Title: PowerPoint , Author: Microsoft Office , Last Saved By: Microsoft Office , Revision Number: 1, Name of Creating Application: Microsoft Macintosh PowerPoint, Total Editing Time: 00:15, Create Time/Date: Mon May 14 08:19:15 2018, Last Saved Time/Date: Mon May 14 08:19:31 2018, Number of Words: 0"]

\* line 372
Doc_win_pptx ==
    [platform |-> "win", ext |-> "pptx", method |-> "is_ppt",
     text |-> "Microsoft PowerPoint 2007+"]

\* line 373
Doc_win_ppt ==
    [platform |-> "win", ext |-> "ppt", method |-> "is_ppt",
     text |-> "Composite Document File V2 Document, Little Endian, Os: Windows, Version 6.1, Code page: 936, Title: PowerPoint , Author: mwz2, Last Saved By: nijch, Revision Number: 69, Name of Creating Application: Microsoft Office PowerPoint, Total Editing Time: 3d+10:21:36, Create Time/Date: Wed Mar 24 08:08:03 2004, Last Saved Time/Date: Sun Nov 25 10:53:30 2012, Number of Words: 13734"]

DocExamples ==
    {Doc_macOS_docx,
     Doc_macOS_doc,
     Doc_win_docx,
     Doc_win_doc,
     Doc_macOS_xlsx,
     Doc_macOS_xls,
     Doc_win_xlsx,
     Doc_win_xls,
     Doc_macOS_pptx,
     Doc_macOS_ppt,
     Doc_win_pptx,
     Doc_win_ppt}

\* descriptions libmagic gives for other kinds of file
OtherDescriptions ==
    {"Microsoft Word document (*.docx)",
     "PDF document, version 1.2",
     "Rich Text Format data, version 1, ANSI",
     "HTML document text",
     "Python script, ASCII text executable",
     "ASCII text",
     "ELF 64-bit LSB executable, x86-64",
     "PE32 executable (GUI) Intel 80386, for MS Windows",
     "MS-DOS executable PE32 executable (DLL)",
     "7-zip archive data, version 0.4",
     "RAR archive data, v4",
     "tar archive",
     "POSIX tar archive (GNU)",
     "data"}

Descriptions == {ex.text : ex \in DocExamples} \cup OtherDescriptions

\* the mime argument of TypeInfo.__init__ (default None)
Mimes == {None, "application/msword", "application/octet-stream"}

PredicateNames ==
    {"is_word", "is_excel", "is_ppt", "is_pdf", "is_rtf", "is_html",
     "is_script", "is_other_text", "is_linux_executable", "is_pe",
     "is_7_zip", "is_rar", "is_tar", "is_other_zip"}

NotAsked == [method |-> None, answer |-> FALSE]

\* TypeInfo(base_info, mime): a new object replaces the one under inspection
NewTypeInfo(base_info, mime) ==
    /\ info' = TypeInfo(base_info, mime)
    /\ asked' = NotAsked
    /\ UNCHANGED <<magicVars, tallyVars>>

\* one predicate is called on the object
CallPredicate(method_name) ==
    /\ asked' = [method |-> method_name, answer |-> CallMethod(method_name, info)]
    /\ UNCHANGED info
    /\ UNCHANGED <<magicVars, tallyVars>>

InitTypeInfo ==
    /\ py3 = FALSE
    /\ LoadedModule /\ IdleMagic /\ IdleTally
    /\ \E base_info \in Descriptions, mime \in Mimes :
           info = TypeInfo(base_info, mime)
    /\ asked = NotAsked

NextTypeInfo ==
    \/ \E base_info \in Descriptions, mime \in Mimes : NewTypeInfo(base_info, mime)
    \/ \E method_name \in PredicateNames : CallPredicate(method_name)

SpecTypeInfo == InitTypeInfo /\ [][NextTypeInfo]_vars

\* ------------------------------------------------------------------ test.py
\* method_key_map (9-24), in the order it is written
method_key_map ==
    <<<<"is_word", "word_count">>,
      <<"is_excel", "excel_count">>,
      <<"is_ppt", "ppt_count">>,
      <<"is_pdf", "pdf_count">>,
      <<"is_rtf", "rft_count">>,
      <<"is_html", "html_count">>,
      <<"is_script", "script_count">>,
      <<"is_other_text", "othertext_count">>,
      <<"is_linux_executable", "linux_executable_count">>,
      <<"is_pe", "pe_count">>,
      <<"is_7_zip", "7zip_count">>,
      <<"is_rar", "rar_count">>,
      <<"is_tar", "tar_count">>,
      <<"is_other_zip", "otherzip_count">>>>

Reverse(s) == [j \in 1..Len(s) |-> s[Len(s) + 1 - j]]

\* iteritems() of a Python 2 dict walks the items in an order the language
\* leaves open: the written order, its reverse, and the two halves swapped
IterOrders ==
    {method_key_map,
     Reverse(method_key_map),
     SubSeq(method_key_map, 8, 14) \o SubSeq(method_key_map, 1, 7)}

CategoryKeys == {method_key_map[j][2] : j \in 1..Len(method_key_map)}
AllKeys == CategoryKeys \cup {"others_count"}

\* defaultdict(int) (test.py 5-7): a missing key reads as 0
Get(d, key) == IF key \in DOMAIN d THEN d[key] ELSE 0

\* default_dict_[key] += 1
Incr(d, key) ==
    [x \in DOMAIN d \cup {key} |-> IF x = key THEN Get(d, key) + 1 ELSE d[x]]

RECURSIVE SumOver(_, _)
SumOver(d, keys) ==
    IF keys = {} THEN 0
    ELSE LET key == CHOOSE x \in keys : TRUE
         IN d[key] + SumOver(d, keys \ {key})

Total(d) == SumOver(d, DOMAIN d)

\* the items, in iteration order, whose method answers True for file_info
Hits(file_info, items) ==
    {j \in 1..Len(items) : CallMethod(items[j][1], file_info)}

\* the loop of statistic_file_for_dict with its "return" left out: every
\* method that holds is counted, and the else branch of the for always runs
RECURSIVE CountAll(_, _, _)
CountAll(d, items, js) ==
    IF js = {} THEN d
    ELSE LET j == CHOOSE x \in js : TRUE
         IN CountAll(Incr(d, items[j][2]), items, js \ {j})

statistic_without_return(file_info, default_dict_, items) ==
    Incr(CountAll(default_dict_, items, Hits(file_info, items)), "others_count")

\* statistic_file_for_dict (test.py 26-34): the first method, in iteration
\* order, that holds gets its key incremented and the function returns; the
\* else of the for runs when none held
statistic_file_for_dict(file_info, default_dict_, items) ==
    LET hits == Hits(file_info, items)
    IN IF hits = {}
       THEN Incr(default_dict_, "others_count")
       ELSE LET first == CHOOSE j \in hits : \A j2 \in hits : j <= j2
            IN Incr(default_dict_, items[first][2])

\* what os.listdir gives: a directory, a regular file libmagic describes, or
\* a regular file on which filemagicext.from_file raises
Directory == [isfile |-> FALSE, raises |-> FALSE, text |-> ""]
Unreadable == [isfile |-> TRUE, raises |-> TRUE, text |-> ""]
Described(text) == [isfile |-> TRUE, raises |-> FALSE, text |-> text]

TallyDescriptions ==
    {"Microsoft Word 2007+",
     "HTML document text",
     "Python script, ASCII text executable",
     "ELF 64-bit LSB executable, x86-64",
     "data"}

Entries == {Directory, Unreadable} \cup {Described(text) : text \in TallyDescriptions}

RECURSIVE Listings(_)
Listings(n) ==
    IF n = 0 THEN {<<>>}
    ELSE LET shorter == Listings(n - 1)
         IN shorter \cup {Append(l, e) : l \in {x \in shorter : Len(x) = n - 1}, e \in Entries}

\* test.py 41-44: an entry that is no regular file is skipped
SkipEntry ==
    /\ tpc = "loop" /\ idx <= Len(listing)
    /\ ~listing[idx].isfile
    /\ last' = count_dict
    /\ idx' = idx + 1
    /\ UNCHANGED <<listing, order, count_dict, tpc>>
    /\ UNCHANGED <<magicVars, infoVars>>

\* test.py 45: filemagicext.from_file raises and the script ends there
FromFileRaises ==
    /\ tpc = "loop" /\ idx <= Len(listing)
    /\ listing[idx].isfile /\ listing[idx].raises
    /\ tpc' = "traceback"
    /\ UNCHANGED <<listing, order, idx, count_dict, last>>
    /\ UNCHANGED <<magicVars, infoVars>>

\* test.py 45 and 81: the file is described and counted
CountFile ==
    /\ tpc = "loop" /\ idx <= Len(listing)
    /\ listing[idx].isfile /\ ~listing[idx].raises
    /\ LET file_info == TypeInfo(listing[idx].text, None)
       IN count_dict' = statistic_file_for_dict(file_info, count_dict, order)
    /\ last' = count_dict
    /\ idx' = idx + 1
    /\ UNCHANGED <<listing, order, tpc>>
    /\ UNCHANGED <<magicVars, infoVars>>

\* test.py 83: the loop is over and the counts are printed
PrintCounts ==
    /\ tpc = "loop" /\ idx > Len(listing)
    /\ tpc' = "printed"
    /\ UNCHANGED <<listing, order, idx, count_dict, last>>
    /\ UNCHANGED <<magicVars, infoVars>>

InitTally ==
    /\ py3 = FALSE
    /\ LoadedModule /\ IdleMagic /\ IdleInfo
    /\ listing \in Listings(MaxEntries)
    /\ order \in IterOrders
    /\ idx = 1
    /\ count_dict = <<>>
    /\ last = <<>>
    /\ tpc = "loop"

NextTally ==
    \/ SkipEntry
    \/ FromFileRaises
    \/ CountFile
    \/ PrintCounts

SpecTally == InitTally /\ [][NextTally]_vars

\* ------------------------------------------------------------------ claims
\* the threads inside a native identification call on handle h
InNative(h) == {t \in Threads : pc[t] = "native" /\ frame[t].native = h}

\* C1: on one Magic instance, whatever the interleaving of from_buffer and
\* from_file calls by its threads, at most one thread at a time is inside
\* magic_buffer or magic_file with that instance's cookie, and that thread
\* is the one holding the instance's lock.
C1_OneNativeCallPerHandle ==
    \A i \in Inst :
        /\ Cardinality(InNative(i)) <= 1
        /\ Cardinality({t \in Threads : pc[t] = "native" /\ frame[t].self = i}) <= 1
        /\ \A t \in Threads :
               (pc[t] = "native" /\ frame[t].self = i) => lock[i] = {t}

\* one thread is inside libmagic while another waits for the same lock
C1_Witness ==
    \E t1 \in Threads, t2 \in Threads :
        /\ t1 # t2
        /\ pc[t1] = "native" /\ frame[t1].fn = "from_buffer"
        /\ pc[t2] = "with_lock" /\ frame[t2].fn = "from_file"
        /\ frame[t1].self = frame[t2].self

\* C2: once the module body has run, from_file(filename, mime=True) returns
\* the mimetype and from_file(filename) the description, each as a plain
\* str (a call may still fail on a missing file or inside libmagic).
C2_FromFileReturnsStr ==
    \A t \in Threads :
        (modpc = "loaded" /\ pc[t] = "done" /\ frame[t].fn = "from_file") =>
            LET o == frame[t].out
            IN \/ o.kind = "raise" /\ o.type \in {"IOError", "MagicException"}
               \/ /\ o.kind = "return"
                  /\ o.type = StrType
                  /\ o.val[1] = IF frame[t].kw = "mime=True"
                                THEN "mimetype" ELSE "description"

\* what holds of every Magic object whatever became of magic_close: one
\* magic_open, at most one magic_close, the handle closed exactly when
\* magic_close was called, and no identification call on a closed handle
LifeCycle(i) ==
    /\ stage[i] # "unborn" => openCalls[i] = 1
    /\ stage[i] = "unborn" => openCalls[i] = 0 /\ closeCalls[i] = 0
    /\ closeCalls[i] <= 1
    /\ (handle[i] = "closed") = (closeCalls[i] = 1)
    /\ closeCalls[i] = 1 => stage[i] = "finalized"
    /\ ~staleCalls
    /\ \A t \in Threads : pc[t] = "native" => handle[frame[t].native] = "open"

\* C3 as stated: over the life of a Magic instance (a failed magic_load
\* included) magic_open is called exactly once, magic_close at most once, no
\* identification call follows the close, and after __del__ the cookie is
\* None.
C3_CookieNoneAfterDel ==
    \A i \in Inst :
        /\ LifeCycle(i)
        /\ stage[i] = "finalized" => cookie[i] = NoObject

\* C3 amended: as C3, except that after __del__ the cookie is None only if
\* magic_close was still bound when __del__ ran (or magic_open had given
\* NULL); when the module global magic_close has been cleared at interpreter
\* shutdown, __del__ calls nothing, the handle stays open and the cookie
\* keeps it.
C3_CookieNoneAfterDelUnlessShutdown ==
    \A i \in Inst :
        /\ LifeCycle(i)
        /\ (stage[i] = "finalized" /\ cookie[i] # NoObject) =>
               /\ magic_close = None
               /\ closeCalls[i] = 0
               /\ handle[i] = "open"
        /\ (stage[i] = "finalized" /\ cookie[i] = NoObject) =>
               handle[i] \in {"closed", "unopened"}

\* an instance that served a call was finalized and closed its handle
C3_Witness ==
    \E i \in Inst, t \in Threads :
        /\ stage[i] = "finalized" /\ closeCalls[i] = 1 /\ cookie[i] = NoObject
        /\ pc[t] = "done" /\ frame[t].self = i /\ frame[t].native = i
        /\ magic_close # None

\* the other two ends of a life: magic_load failed in __init__ and __del__
\* closed the handle; __del__ ran after shutdown and closed nothing
C3_WitnessLoadFailed ==
    \E i \in Inst :
        /\ stage[i] = "finalized" /\ closeCalls[i] = 1
        /\ \A t \in Threads : pc[t] = "idle"

C3_WitnessShutdown ==
    \E i \in Inst :
        stage[i] = "finalized" /\ cookie[i] # NoObject /\ magic_close = None

\* C5: the step of Magic.from_file that finds the file missing ends the
\* call with the IOError of open(): the lock has not been acquired, no
\* native call has been made, and lock, cookie, flags and the handle are as
\* they were.
C5_MissingFileRaisesFirst ==
    [][\A t \in Threads :
          (pc[t] = "open" /\ ~Exists(frame[t].arg) /\ pc'[t] # "open") =>
              /\ pc'[t] = "done"
              /\ frame'[t].out.kind = "raise"
              /\ frame'[t].out.type = "IOError"
              /\ ~frame'[t].acquired
              /\ frame'[t].native = NoObject
              /\ UNCHANGED <<lock, cookie, flags, handle>>]_vars

\* a call on a missing file has ended in IOError while another thread holds
\* the lock inside libmagic
C5_Witness ==
    \E t \in Threads, t2 \in Threads :
        /\ pc[t] = "done" /\ frame[t].fn = "from_file" /\ ~Exists(frame[t].arg)
        /\ frame[t].out.type = "IOError" /\ ~frame[t].acquired
        /\ pc[t2] = "native" /\ lock[frame[t2].self] = {t2}
        /\ frame[t2].self = frame[t].self

\* C6: in test.py every entry that is a regular file adds one to exactly
\* one counter, a key of method_key_map whose predicate holds for the file
\* or 'others_count' when no predicate holds; a directory changes nothing;
\* so the counters sum to the number of regular files gone through, and
\* when the counts are printed to the number of regular files listed.
Regular(s) == {j \in 1..Len(s) : s[j].isfile}

C4_DocExamplesClassified ==
    \A ex \in DocExamples :
        (info._base_info = ex.text /\ asked.method \in {"is_word", "is_excel", "is_ppt"})
            => asked.answer = (asked.method = ex.method)

\* is_word has answered False for the Windows ppt example (whose text has
\* "Number of Words") on an object whose _mime says Word
C4_Witness ==
    /\ info._base_info = Doc_win_ppt.text
    /\ info._mime = "application/msword"
    /\ asked = [method |-> "is_word", answer |-> FALSE]

\* C7: when the native call gives NULL, a call on an instance created with
\* mime=True returns "application/octet-stream" if magic_error gave no
\* message; every other such call (a message, or no mime=True, also with
\* mime_encoding=True) raises the MagicException carrying that message.
C7_Handle509Bug ==
    \A t \in Threads :
        (pc[t] = "done" /\ frame[t].outcome.null) =>
            LET o == frame[t].out
                args == ctor[frame[t].self]
            IN IF frame[t].outcome.err = None /\ args.mime
               THEN /\ o.kind = "return" /\ o.type = StrType
                    /\ o.val[2] = "application/octet-stream"
               ELSE /\ o.kind = "raise" /\ o.type = "MagicException"
                    /\ o.val = frame[t].outcome.err

\* NULL without a message on a mime=True instance gave the default type
C7_Witness ==
    \E t \in Threads :
        /\ pc[t] = "done" /\ frame[t].outcome = [null |-> TRUE, err |-> None]
        /\ ctor[frame[t].self].mime /\ ctor[frame[t].self].uncompress
        /\ frame[t].out.kind = "return"

\* NULL without a message on a mime_encoding=True instance raised
C7_WitnessEncodingOnly ==
    \E t \in Threads :
        /\ pc[t] = "done" /\ frame[t].outcome = [null |-> TRUE, err |-> None]
        /\ ~ctor[frame[t].self].mime /\ ctor[frame[t].self].mime_encoding
        /\ frame[t].out.kind = "raise"

\* C8: whatever module-level calls were made, also concurrently before the
\* first instance exists, _get_magic_type has built and cached at most one
\* Magic instance per mime key, and all calls with a key run on that one.
C8_OneInstancePerKey ==
    \A k \in BOOLEAN :
        /\ Cardinality(created[k]) <= 1
        /\ \A t1 \in Threads, t2 \in Threads :
               (/\ frame[t1].self # NoObject /\ frame[t2].self # NoObject
                /\ frame[t1].mime = k /\ frame[t2].mime = k)
                   => frame[t1].self = frame[t2].self
====
